---- MODULE Spec2Model ----
(***************************************************************************)
(* Monte Carlo projection engine of the personal investment account        *)
(* (src/monte_carlo.py): MonteCarloSimulator.__init__, .simulate and the   *)
(* percentile aggregation, as a state machine; and the company model       *)
(* (src/oyliivinvest.py): OUInvestmentModel.__init__, .arvuta_stsenaarium  *)
(* and .arvuta_uuri_hypoteek, with money in cents.                         *)
(*                                                                         *)
(* Numbers.  The program computes in binary floating point.  The model     *)
(* computes in decimal fixed point with round-to-nearest after every       *)
(* multiplication and division: money in units of 1/MS, rates (returns,    *)
(* volatilities, deduction factors) in units of 1/RS.  Additions and       *)
(* subtractions are exact, as they are in floating point up to the last    *)
(* bit.  Statements about a proportional deduction therefore hold up to    *)
(* the rounding of the arithmetic, which the properties state explicitly.  *)
(***************************************************************************)
EXTENDS Integers, Sequences, FiniteSets, TLC

\* ------------------------------------------------------------ arithmetic

\* money units per currency unit (float balances, costs, payouts)
MS == 1000
\* rate units per 1.0 (float returns, volatilities, factors)
RS == 1000000

Abs(x) == IF x < 0 THEN -x ELSE x
Max(a, b) == IF a >= b THEN a ELSE b

\* <<q, r>> with a*b = q*c + r and 0 <= r < c, for a, b >= 0 and c > 0,
\* computed bit by bit so that no intermediate exceeds the integer range.
RECURSIVE MulDivU(_, _, _)
MulDivU(a, b, c) ==
    IF b = 0 THEN <<0, 0>>
    ELSE LET h == MulDivU(a, b \div 2, c)
             dq == 2 * h[1] + ((2 * h[2]) \div c)
             dr == (2 * h[2]) % c
         IN IF b % 2 = 0 THEN <<dq, dr>>
            ELSE <<dq + (a \div c) + ((dr + (a % c)) \div c), (dr + (a % c)) % c>>

\* a*b/c rounded to the nearest integer (halves away from zero), c > 0.
MulDiv(a, b, c) ==
    LET qr == MulDivU(Abs(a), Abs(b), c)
        m == qr[1] + (IF 2 * qr[2] >= c THEN 1 ELSE 0)
    IN IF (a < 0) = (b < 0) THEN m ELSE -m

\* x / n for a float x and a small integer n (annual_return / 12, sum / N).
DivInt(x, n) == MulDiv(x, 1, n)
\* money * rate and rate * rate / 1.0
MulRate(x, r) == MulDiv(x, r, RS)
\* money / money as a rate
Ratio(x, y) == MulDiv(x, RS, y)

\* ------------------------------------------------------------ dictionaries

\* A Python dict is a sequence of <<key, value>> pairs in insertion order.
Keys(d) == {d[i][1] : i \in 1..Len(d)}
Has(d, k) == \E i \in 1..Len(d) : d[i][1] = k
Get(d, k) == d[CHOOSE i \in 1..Len(d) : d[i][1] = k][2]
Put(d, k, v) ==
    IF Has(d, k) THEN [i \in 1..Len(d) |-> IF d[i][1] = k THEN <<k, v>> ELSE d[i]]
    ELSE Append(d, <<k, v>>)

RECURSIVE SumValues(_)
SumValues(d) == IF d = <<>> THEN 0 ELSE d[1][2] + SumValues(Tail(d))

RECURSIVE SumSeq(_)
SumSeq(s) == IF s = <<>> THEN 0 ELSE s[1] + SumSeq(Tail(s))

\* Optional[int]: None is the empty sequence, a value v is <<v>>.
None == <<>>
Some(v) == <<v>>

\* ------------------------------------------------------------ random numbers

\* numpy's process-wide generator: a seedable state that every draw advances.
\* The model's generator is a full-period additive generator on RngMod
\* states; the standard normal deviate of a draw is read from the new state.
RngMod == 7
RngStates == 0..(RngMod - 1)
ZTable == <<0, 2, -1, 1, -3, 2, -1>>
SeedState(seed) == seed % RngMod
RngNext(s) == (s + 3) % RngMod
\* np.random.normal(mu, sigma) read from generator state s (after advancing)
NormalDraw(mu, sigma, s) == mu + sigma * ZTable[s + 1]

\* ------------------------------------------------------------ inputs

\* first year of the horizons explored
StartYear == 2026
\* longest horizon, in years
MaxYears == 2
\* largest n_simulations
MaxSims == 2
MONTHS == 12
TAX_RATE == 220000
\* np.sqrt(12), in rate units
SQRT12 == 3464102

\* asset_params: isin -> AssetParams(annual_return, annual_volatility)
PZero == [i \in {"X", "Y"} |->
            IF i = "X" THEN [annual_return |-> 100000, annual_volatility |-> 0]
            ELSE [annual_return |-> 0, annual_volatility |-> 0]]
PVol == [i \in {"X", "Y"} |->
            IF i = "X" THEN [annual_return |-> 120000, annual_volatility |-> 1400000]
            ELSE [annual_return |-> 60000, annual_volatility |-> 700000]]
PPartial == [i \in {"X"} |-> [annual_return |-> 120000, annual_volatility |-> 700000]]
ParamSets == {PZero, PVol, PPartial}

Seeds == {None, Some(1)}
\* states the generator may be in when the process starts (OS entropy)
EntropyStates == {0, 6}

\* (current_assets, monthly_allocations)
Accounts == { <<  << <<"X", 1000 * MS>> >>,                      <<>>  >>,
              <<  << <<"X", 600 * MS>>, <<"Y", 400 * MS>> >>,    << <<"Y", 100 * MS>> >>  >>,
              <<  <<>>,                                          << <<"X", 100 * MS>> >>  >>,
              <<  << <<"X", 1000 * MS>> >>,                      << <<"X", 1 * MS>> >>  >> }
AnnualCosts == {0, 1200 * MS}
\* (withdrawal_rate, withdrawal_start_year)
WithdrawalPlans == { <<0, StartYear + 9>>, <<RS, StartYear>>, <<RS \div 2, StartYear + 1>> }
ContributionEnds == {None, Some(StartYear + 1)}

ValidConfigs ==
    { [ current_assets |-> a[1], monthly_allocations |-> a[2],
        start_year |-> StartYear, end_year |-> e,
        annual_costs |-> c, withdrawal_rate |-> w[1], withdrawal_start_year |-> w[2],
        contribution_end_year |-> x ] :
      a \in Accounts, e \in StartYear..(StartYear + MaxYears - 1), c \in AnnualCosts,
      w \in WithdrawalPlans, x \in ContributionEnds }

\* arguments a caller can pass although they make no sense: an end year
\* before the start year, negative costs, a negative withdrawal rate
Plain == [ current_assets |-> << <<"X", 1000 * MS>> >>, monthly_allocations |-> <<>>,
           start_year |-> StartYear, end_year |-> StartYear,
           annual_costs |-> 0, withdrawal_rate |-> 0, withdrawal_start_year |-> StartYear,
           contribution_end_year |-> None ]
InvalidConfigs ==
    { [Plain EXCEPT !.end_year = StartYear - 1],
      [Plain EXCEPT !.annual_costs = -(120 * MS)],
      [Plain EXCEPT !.withdrawal_rate = -(RS \div 2)] }

Configs == ValidConfigs \cup InvalidConfigs

\* ------------------------------------------------------------ state

VARIABLES
    rng,               \* state of numpy's global generator
    rng_writer,        \* who last wrote rng: the seeding, or a path of a run
    simulators,        \* the MonteCarloSimulator objects constructed so far
    pc,                \* position of the running simulate call ("idle": none)
    call,              \* locals of the running call: self, arguments, setup
    paths, payouts_paths, taxes_paths, costs_paths, deposit_pot_paths,
    sim,               \* index of the path being simulated
    sim_balances, total_invested, total_withdrawn,
    year_idx, withdrawal_budget, year_net_payout, year_tax, year_costs,
    month,
    excess_seen,       \* some path of this call ended a month with
                       \* total_withdrawn > total_invested
    history            \* the calls returned so far, with their results

arrays == <<paths, payouts_paths, taxes_paths, costs_paths, deposit_pot_paths>>
path_state == <<sim_balances, total_invested, total_withdrawn>>
year_state == <<year_idx, withdrawal_budget, year_net_payout, year_tax, year_costs>>
\* the company model of oyliivinvest.py, which shares nothing with the
\* simulator
VARIABLES
    ou,                \* the OUInvestmentModel object constructed (None: none yet)
    ou_pc,             \* position of the running arvuta_stsenaarium call
    ou_call,           \* its arguments and locals
    tulemused,         \* the rows it has appended so far
    ou_result,         \* what the last arvuta_stsenaarium call returned or raised
    hypoteek_calls     \* the arvuta_uuri_hypoteek calls returned so far

ou_vars == <<ou, ou_pc, ou_call, tulemused, ou_result, hypoteek_calls>>
mc_vars == <<rng, rng_writer, simulators, pc, call, arrays, sim, path_state,
             year_state, month, excess_seen, history>>
vars == <<mc_vars, ou_vars>>

\* no company model constructed, no call made
OUIdle ==
    /\ ou = None
    /\ ou_pc = "idle"
    /\ ou_call = None
    /\ tulemused = <<>>
    /\ ou_result = None
    /\ hypoteek_calls = <<>>

NoCall == [self |-> 0]

\* ------------------------------------------------------------ __init__

\* MonteCarloSimulator(asset_params, n_simulations, seed): the object
NewSimulator(asset_params, n_simulations, seed) ==
    [asset_params |-> asset_params, n_simulations |-> n_simulations, seed |-> seed]

\* the generator after __init__: re-seeded when a seed is given
SeededRng(seed, old) == IF seed # None THEN SeedState(seed[1]) ELSE old

SeedWriter == [kind |-> "seed", run |-> 0, sim |-> 0]

Init ==
    /\ \E ap \in ParamSets, n \in 1..MaxSims, seed \in Seeds :
          /\ simulators = <<NewSimulator(ap, n, seed)>>
          /\ \E r0 \in EntropyStates : rng = SeededRng(seed, r0)
    /\ rng_writer = SeedWriter
    /\ pc = "idle"
    /\ call = NoCall
    /\ paths = <<>> /\ payouts_paths = <<>> /\ taxes_paths = <<>>
    /\ costs_paths = <<>> /\ deposit_pot_paths = <<>>
    /\ sim = 0
    /\ sim_balances = <<>> /\ total_invested = 0 /\ total_withdrawn = 0
    /\ year_idx = 0 /\ withdrawal_budget = 0
    /\ year_net_payout = 0 /\ year_tax = 0 /\ year_costs = 0
    /\ month = 0
    /\ excess_seen = FALSE
    /\ history = <<>>
    /\ OUIdle

\* ------------------------------------------------------------ simulate: setup

Years(cfg) == [i \in 1..Max(0, cfg.end_year - cfg.start_year + 1) |-> cfg.start_year + i - 1]

AllIsins(cfg) == Keys(cfg.current_assets) \cup Keys(cfg.monthly_allocations)

\* asset_monthly_params[isin]
MonthlyParams(asset_params, isin) ==
    IF isin \in DOMAIN asset_params
    THEN [mu |-> DivInt(asset_params[isin].annual_return, MONTHS),
          sigma |-> MulDiv(asset_params[isin].annual_volatility, RS, SQRT12)]
    ELSE [mu |-> 0, sigma |-> 0]

AssetMonthlyParams(asset_params, cfg) ==
    [isin \in AllIsins(cfg) |-> MonthlyParams(asset_params, isin)]

Zeros(n, m) == [i \in 1..n |-> [j \in 1..m |-> 0]]

\* pc after the body of a loop level ends
AfterPaths(nsim, k) == IF k < nsim THEN "path_start" ELSE "aggregate"

\* simulate(...) on simulator s with arguments cfg, up to the path loop
SimulateSetup(s, cfg) ==
    LET self == simulators[s]
        years == Years(cfg)
    IN /\ call' = [self |-> s, cfg |-> cfg, years |-> years,
                   starting_capital |-> SumValues(cfg.current_assets),
                   asset_monthly_params |-> AssetMonthlyParams(self.asset_params, cfg),
                   rng0 |-> rng]
       /\ paths' = Zeros(self.n_simulations, Len(years))
       /\ payouts_paths' = Zeros(self.n_simulations, Len(years))
       /\ taxes_paths' = Zeros(self.n_simulations, Len(years))
       /\ costs_paths' = Zeros(self.n_simulations, Len(years))
       /\ deposit_pot_paths' = Zeros(self.n_simulations, Len(years))
       /\ sim' = 0
       /\ excess_seen' = FALSE
       /\ pc' = AfterPaths(self.n_simulations, 0)
       /\ UNCHANGED ou_vars
       /\ UNCHANGED <<rng, rng_writer, simulators, path_state, year_state, month, history>>

\* the first call on the simulator constructed at the start
SimulateCall ==
    /\ pc = "idle"
    /\ history = <<>>
    /\ \E cfg \in Configs : SimulateSetup(1, cfg)

\* ------------------------------------------------------------ simulate: one path

Cfg == call.cfg
NSim == simulators[call.self].n_simulations
NYears == Len(call.years)
Year == call.years[year_idx + 1]

RECURSIVE WithFutureAssets(_, _)
\* sim_balances extended with 0.0 for every allocation not yet in it
WithFutureAssets(bals, allocs) ==
    IF allocs = <<>> THEN bals
    ELSE WithFutureAssets(IF Has(bals, allocs[1][1]) THEN bals
                          ELSE Append(bals, <<allocs[1][1], 0>>), Tail(allocs))

\* (mutation) the balances dictionary is reused instead of copied
InitialBalances_Shared ==
    IF sim = 0 THEN WithFutureAssets(Cfg.current_assets, Cfg.monthly_allocations)
    ELSE sim_balances

\* the balances a path starts from
InitialBalances == WithFutureAssets(Cfg.current_assets, Cfg.monthly_allocations)

PathStart ==
    /\ pc = "path_start"
    /\ sim_balances' = InitialBalances
    /\ total_invested' = call.starting_capital
    /\ total_withdrawn' = 0
    /\ year_idx' = 0
    /\ IF NYears > 0
       THEN pc' = "year_start" /\ sim' = sim
       ELSE pc' = AfterPaths(NSim, sim + 1) /\ sim' = sim + 1
    /\ UNCHANGED ou_vars
    /\ UNCHANGED <<rng, rng_writer, simulators, call, arrays, withdrawal_budget,
                   year_net_payout, year_tax, year_costs, month, excess_seen, history>>

\* the year's withdrawal budget
WithdrawalBudget(total, year) ==
    IF year >= Cfg.withdrawal_start_year /\ Cfg.withdrawal_rate > 0
    THEN MulRate(total, Cfg.withdrawal_rate)
    ELSE 0

YearStart ==
    /\ pc = "year_start"
    /\ withdrawal_budget' = WithdrawalBudget(SumValues(sim_balances), Year)
    /\ year_net_payout' = 0
    /\ year_tax' = 0
    /\ year_costs' = 0
    /\ month' = 0
    /\ pc' = "contribution"
    /\ UNCHANGED ou_vars
    /\ UNCHANGED <<rng, rng_writer, simulators, call, arrays, sim, path_state,
                   year_idx, excess_seen, history>>

\* (mutation) the withdrawal is taken before the costs are deducted
StepAfter_WithdrawalFirst(step) ==
    CASE step = "contribution" -> "withdrawal"
      [] step = "withdrawal" -> "costs"
      [] step = "costs" -> "market"

\* the order of the four blocks in the body of the month loop
StepAfter(step) ==
    CASE step = "contribution" -> "costs"
      [] step = "costs" -> "withdrawal"
      [] step = "withdrawal" -> "market"

\* (mutation) contributions still made in the cutoff year
IsContributing_Inclusive(year) ==
    ~ (Cfg.contribution_end_year # None /\ year > Cfg.contribution_end_year[1])

\* 1. Contributions
IsContributing(year) ==
    ~ (Cfg.contribution_end_year # None /\ year >= Cfg.contribution_end_year[1])

RECURSIVE Contribute(_, _)
Contribute(bals, allocs) ==
    IF allocs = <<>> THEN bals
    ELSE Contribute(Put(bals, allocs[1][1], Get(bals, allocs[1][1]) + allocs[1][2]),
                    Tail(allocs))

Contribution ==
    /\ pc = "contribution"
    /\ IF IsContributing(Year)
       THEN /\ sim_balances' = Contribute(sim_balances, Cfg.monthly_allocations)
            /\ total_invested' = total_invested + SumValues(Cfg.monthly_allocations)
       ELSE UNCHANGED <<sim_balances, total_invested>>
    /\ pc' = StepAfter("contribution")
    /\ UNCHANGED ou_vars
    /\ UNCHANGED <<rng, rng_writer, simulators, call, arrays, sim, total_withdrawn,
                   year_state, month, excess_seen, history>>

\* every balance multiplied by the factor f
Scale(bals, f) == [i \in 1..Len(bals) |-> <<bals[i][1], MulRate(bals[i][2], f)>>]

\* max(0.0, 1.0 - amount / total)
DeductionFactor(amount, total) == Max(0, RS - Ratio(amount, total))

\* (mutation) the month's cost is charged in full, whatever is left
MonthlyCost_Uncapped(total) == DivInt(Cfg.annual_costs, MONTHS)

\* 2. Costs (proportional deduction)
MonthlyCost(total) ==
    LET monthly_cost == DivInt(Cfg.annual_costs, MONTHS)
    IN IF monthly_cost > total THEN total ELSE monthly_cost

\* (mutation) costs are charged without looking at the balance
CostApplies_AnyBalance(total) == Cfg.annual_costs > 0

CostApplies(total) == total > 0 /\ Cfg.annual_costs > 0

CostDeduction ==
    LET total_bal == SumValues(sim_balances)
    IN /\ pc = "costs"
       /\ IF CostApplies(total_bal)
          THEN /\ year_costs' = year_costs + MonthlyCost(total_bal)
               /\ sim_balances' =
                     Scale(sim_balances, DeductionFactor(MonthlyCost(total_bal), total_bal))
          ELSE UNCHANGED <<year_costs, sim_balances>>
       /\ pc' = StepAfter("costs")
       /\ UNCHANGED ou_vars
       /\ UNCHANGED <<rng, rng_writer, simulators, call, arrays, sim, total_invested,
                      total_withdrawn, year_idx, withdrawal_budget, year_net_payout,
                      year_tax, month, excess_seen, history>>

\* 3. Withdrawals (proportional)
MonthlyWd == DivInt(withdrawal_budget, MONTHS)

\* (mutation) an insufficient balance is withdrawn as far as it goes
WithdrawalApplies_Partial(total) == withdrawal_budget > 0 /\ total > 0

WithdrawalApplies(total) == withdrawal_budget > 0 /\ total >= MonthlyWd

\* (mutation) the whole cumulative excess is taxed at every withdrawal
WithdrawalTax_Cumulative(wd, withdrawn, invested) ==
    MulRate(Max(0, (withdrawn + wd) - invested), TAX_RATE)

\* (mutation) the gross withdrawal is taxed, whatever the basis
WithdrawalTax_Flat(wd, withdrawn, invested) == MulRate(wd, TAX_RATE)

\* tax on a gross withdrawal wd, given the withdrawals and the basis so far
WithdrawalTax(wd, withdrawn, invested) ==
    LET prev_excess == Max(0, withdrawn - invested)
        new_excess == Max(0, (withdrawn + wd) - invested)
        incremental_taxable == new_excess - prev_excess
    IN MulRate(incremental_taxable, TAX_RATE)

\* (mutation) a withdrawal pays the basis back
Withdrawal_ReducesBasis ==
    LET total_bal == SumValues(sim_balances)
        tax == WithdrawalTax(MonthlyWd, total_withdrawn, total_invested)
    IN /\ pc = "withdrawal"
       /\ IF WithdrawalApplies(total_bal)
          THEN /\ year_net_payout' = year_net_payout + (MonthlyWd - tax)
               /\ total_invested' = Max(0, total_invested - MonthlyWd)
               /\ year_tax' = year_tax + tax
               /\ total_withdrawn' = total_withdrawn + MonthlyWd
               /\ sim_balances' = Scale(sim_balances, DeductionFactor(MonthlyWd, total_bal))
          ELSE UNCHANGED <<year_net_payout, year_tax, total_withdrawn, sim_balances,
                           total_invested>>
       /\ pc' = StepAfter("withdrawal")
       /\ UNCHANGED ou_vars
       /\ UNCHANGED <<rng, rng_writer, simulators, call, arrays, sim,
                      year_idx, withdrawal_budget, year_costs, month, excess_seen, history>>

\* (mutation) the withdrawals are accumulated net of tax
Withdrawal_NetWithdrawn ==
    LET total_bal == SumValues(sim_balances)
        tax == WithdrawalTax(MonthlyWd, total_withdrawn, total_invested)
    IN /\ pc = "withdrawal"
       /\ IF WithdrawalApplies(total_bal)
          THEN /\ year_net_payout' = year_net_payout + (MonthlyWd - tax)
               /\ year_tax' = year_tax + tax
               /\ total_withdrawn' = total_withdrawn + (MonthlyWd - tax)
               /\ sim_balances' = Scale(sim_balances, DeductionFactor(MonthlyWd, total_bal))
          ELSE UNCHANGED <<year_net_payout, year_tax, total_withdrawn, sim_balances>>
       /\ pc' = StepAfter("withdrawal")
       /\ UNCHANGED ou_vars
       /\ UNCHANGED <<rng, rng_writer, simulators, call, arrays, sim, total_invested,
                      year_idx, withdrawal_budget, year_costs, month, excess_seen, history>>

Withdrawal ==
    LET total_bal == SumValues(sim_balances)
        tax == WithdrawalTax(MonthlyWd, total_withdrawn, total_invested)
    IN /\ pc = "withdrawal"
       /\ IF WithdrawalApplies(total_bal)
          THEN /\ year_net_payout' = year_net_payout + (MonthlyWd - tax)
               /\ year_tax' = year_tax + tax
               /\ total_withdrawn' = total_withdrawn + MonthlyWd
               /\ sim_balances' = Scale(sim_balances, DeductionFactor(MonthlyWd, total_bal))
          ELSE UNCHANGED <<year_net_payout, year_tax, total_withdrawn, sim_balances>>
       /\ pc' = StepAfter("withdrawal")
       /\ UNCHANGED ou_vars
       /\ UNCHANGED <<rng, rng_writer, simulators, call, arrays, sim, total_invested,
                      year_idx, withdrawal_budget, year_costs, month, excess_seen, history>>

\* (mutation) an asset at zero is given a return too
RECURSIVE MarketFold_DrawsOnZero(_, _, _)
MarketFold_DrawsOnZero(bals, i, r) ==
    IF i > Len(bals) THEN [bals |-> bals, rng |-> r]
    ELSE IF bals[i][2] >= 0
         THEN LET params == call.asset_monthly_params[bals[i][1]]
                  r2 == RngNext(r)
                  ret == NormalDraw(params.mu, params.sigma, r2)
              IN MarketFold_DrawsOnZero(
                     [bals EXCEPT ![i] = <<bals[i][1], MulRate(bals[i][2], RS + ret)>>],
                     i + 1, r2)
         ELSE MarketFold_DrawsOnZero(bals, i + 1, r)

\* 4. Market return: the balances and the generator after the loop over
\* the assets, from asset i on
RECURSIVE MarketFold(_, _, _)
MarketFold(bals, i, r) ==
    IF i > Len(bals) THEN [bals |-> bals, rng |-> r]
    ELSE IF bals[i][2] > 0
         THEN LET params == call.asset_monthly_params[bals[i][1]]
                  r2 == RngNext(r)
                  ret == NormalDraw(params.mu, params.sigma, r2)
              IN MarketFold([bals EXCEPT ![i] = <<bals[i][1], MulRate(bals[i][2], RS + ret)>>],
                            i + 1, r2)
         ELSE MarketFold(bals, i + 1, r)

\* whether the market step of this month draws at all
Draws(bals) == \E i \in 1..Len(bals) : bals[i][2] > 0

PathWriter == [kind |-> "path", run |-> Len(history) + 1, sim |-> sim]

MarketReturn ==
    LET after == MarketFold(sim_balances, 1, rng)
    IN /\ pc = "market"
       /\ sim_balances' = after.bals
       /\ rng' = after.rng
       /\ rng_writer' = IF Draws(sim_balances) THEN PathWriter ELSE rng_writer
       /\ excess_seen' = (excess_seen \/ total_withdrawn > total_invested)
       /\ month' = month + 1
       /\ pc' = IF month + 1 < MONTHS THEN "contribution" ELSE "year_end"
       /\ UNCHANGED ou_vars
       /\ UNCHANGED <<simulators, call, arrays, sim, total_invested, total_withdrawn,
                      year_state, history>>

\* End Year Record
Record(matrix, value) == [matrix EXCEPT ![sim + 1][year_idx + 1] = value]

YearEnd ==
    /\ pc = "year_end"
    /\ paths' = Record(paths, SumValues(sim_balances))
    /\ payouts_paths' = Record(payouts_paths, year_net_payout)
    /\ taxes_paths' = Record(taxes_paths, year_tax)
    /\ costs_paths' = Record(costs_paths, year_costs)
    /\ deposit_pot_paths' = Record(deposit_pot_paths, total_invested)
    /\ IF year_idx + 1 < NYears
       THEN pc' = "year_start" /\ year_idx' = year_idx + 1 /\ sim' = sim
       ELSE pc' = AfterPaths(NSim, sim + 1) /\ year_idx' = year_idx /\ sim' = sim + 1
    /\ UNCHANGED ou_vars
    /\ UNCHANGED <<rng, rng_writer, simulators, call, path_state, withdrawal_budget,
                   year_net_payout, year_tax, year_costs, month, excess_seen, history>>

\* ------------------------------------------------------------ simulate: aggregation

Column(matrix, y) == [i \in 1..Len(matrix) |-> matrix[i][y]]

\* (mutation) the interpolation runs over the values in path order
Percentile_Unsorted(values, q) ==
    LET pos == (Len(values) - 1) * q
        lo == pos \div 100
        t == pos % 100
        a == values[lo + 1]
        b == values[IF t = 0 THEN lo + 1 ELSE lo + 2]
    IN IF 2 * t >= 100 THEN b - MulDiv(b - a, 100 - t, 100)
       ELSE a + MulDiv(b - a, t, 100)

\* np.percentile(values, q): linear interpolation between order statistics
Percentile(values, q) ==
    LET sorted == SortSeq(values, LAMBDA a, b : a < b)
        pos == (Len(values) - 1) * q
        lo == pos \div 100
        t == pos % 100
        a == sorted[lo + 1]
        b == sorted[IF t = 0 THEN lo + 1 ELSE lo + 2]
    IN IF 2 * t >= 100 THEN b - MulDiv(b - a, 100 - t, 100)
       ELSE a + MulDiv(b - a, t, 100)

Ranks == 1..99

\* np.percentile(matrix, np.arange(1, 100), axis=0) as rank -> list per year
PercentileDict(matrix, nyears) ==
    [r \in Ranks |-> [y \in 1..nyears |-> Percentile(Column(matrix, y), r)]]

\* np.mean(matrix, axis=0)
Mean(matrix, nyears) ==
    [y \in 1..nyears |-> DivInt(SumSeq(Column(matrix, y)), Len(matrix))]

\* (mutation) the legacy field is read from the array of percentile values,
\* whose index is one below the rank
LegacyField_ArrayIndex(percentiles_dict, rank) == percentiles_dict[rank + 1]

\* Populate legacy fields from dict
LegacyField(percentiles_dict, rank) == percentiles_dict[rank]

\* the aggregation of the five outcome matrices into the result
Aggregation(balances, payouts, taxes, costs, deposits) ==
    LET percentiles_dict == PercentileDict(balances, NYears)
    IN [ years |-> call.years,
         percentiles |-> percentiles_dict,
         payouts_percentiles |-> PercentileDict(payouts, NYears),
         taxes_percentiles |-> PercentileDict(taxes, NYears),
         costs_percentiles |-> PercentileDict(costs, NYears),
         p10 |-> LegacyField(percentiles_dict, 10),
         p50 |-> LegacyField(percentiles_dict, 50),
         p90 |-> LegacyField(percentiles_dict, 90),
         mean |-> Mean(balances, NYears),
         deposit_pot_p50 |-> [y \in 1..NYears |-> Percentile(Column(deposits, y), 50)] ]

SimulationResult ==
    Aggregation(paths, payouts_paths, taxes_paths, costs_paths, deposit_pot_paths)

\* round(v, 2): to the nearest cent, a tie to the even cent
CENT == MS \div 100
Round2(v) ==
    LET q == v \div CENT
        r == v % CENT
    IN IF 2 * r < CENT THEN q * CENT
       ELSE IF 2 * r > CENT THEN (q + 1) * CENT
       ELSE IF q % 2 = 0 THEN q * CENT ELSE (q + 1) * CENT

RoundList(vals) == [y \in DOMAIN vals |-> Round2(vals[y])]
RoundDict(dict) == [k \in DOMAIN dict |-> RoundList(dict[k])]

\* SimulationResult.to_dict
ToDict(result) ==
    [ years |-> result.years,
      percentiles |-> RoundDict(result.percentiles),
      p10 |-> RoundList(result.percentiles[10]),
      p50 |-> RoundList(result.percentiles[50]),
      p90 |-> RoundList(result.percentiles[90]),
      mean |-> RoundList(result.mean),
      payouts_percentiles |-> RoundDict(result.payouts_percentiles),
      taxes_percentiles |-> RoundDict(result.taxes_percentiles),
      costs_percentiles |-> RoundDict(result.costs_percentiles),
      deposit_pot_p50 |-> RoundList(result.deposit_pot_p50) ]

Aggregate ==
    /\ pc = "aggregate"
    /\ history' = Append(history, [self |-> call.self, cfg |-> Cfg, rng0 |-> call.rng0,
                                   excess_seen |-> excess_seen,
                                   result |-> SimulationResult])
    /\ pc' = "idle"
    /\ UNCHANGED ou_vars
    /\ UNCHANGED <<rng, rng_writer, simulators, call, arrays, sim, path_state,
                   year_state, month, excess_seen>>

\* ------------------------------------------------------------ specification

Steps == PathStart \/ YearStart \/ Contribution \/ CostDeduction \/ Withdrawal
            \/ MarketReturn \/ YearEnd \/ Aggregate

Next == SimulateCall \/ Steps

Spec == Init /\ [][Next]_vars

\* ------------------------------------------------------------ a session of calls

\* A client process that constructs simulators and calls simulate several
\* times: the generator is the process's, so it lives across the calls.
MaxRuns == 2
MaxSimulators == 2
SessionParamSets == {PZero, PVol}
SessionConfigs ==
    { [ current_assets |-> << <<"X", 1000 * MS>> >>, monthly_allocations |-> <<>>,
        start_year |-> StartYear, end_year |-> StartYear,
        annual_costs |-> c, withdrawal_rate |-> w, withdrawal_start_year |-> StartYear,
        contribution_end_year |-> None ] :
      c \in {0, 60 * MS}, w \in {0, RS} }

SessionInit ==
    /\ simulators = <<>>
    /\ rng \in EntropyStates
    /\ rng_writer = SeedWriter
    /\ pc = "idle"
    /\ call = NoCall
    /\ paths = <<>> /\ payouts_paths = <<>> /\ taxes_paths = <<>>
    /\ costs_paths = <<>> /\ deposit_pot_paths = <<>>
    /\ sim = 0
    /\ sim_balances = <<>> /\ total_invested = 0 /\ total_withdrawn = 0
    /\ year_idx = 0 /\ withdrawal_budget = 0
    /\ year_net_payout = 0 /\ year_tax = 0 /\ year_costs = 0
    /\ month = 0
    /\ excess_seen = FALSE
    /\ history = <<>>
    /\ OUIdle

\* MonteCarloSimulator(asset_params, n_simulations, seed)
Construct ==
    /\ pc = "idle"
    /\ Len(simulators) < MaxSimulators
    /\ \E ap \in SessionParamSets, seed \in Seeds :
          /\ simulators' = Append(simulators, NewSimulator(ap, MaxSims, seed))
          /\ rng' = SeededRng(seed, rng)
          /\ rng_writer' = IF seed # None THEN SeedWriter ELSE rng_writer
    /\ UNCHANGED ou_vars
    /\ UNCHANGED <<pc, call, arrays, sim, path_state, year_state, month, excess_seen,
                   history>>

\* simulate(...) on any of the simulators constructed so far
SessionSimulate ==
    /\ pc = "idle"
    /\ Len(history) < MaxRuns
    /\ \E s \in 1..Len(simulators), cfg \in SessionConfigs : SimulateSetup(s, cfg)

SessionNext == Construct \/ SessionSimulate \/ Steps

SessionSpec == SessionInit /\ [][SessionNext]_vars

\* ------------------------------------------------------------ oyliivinvest.py

\* Money of the company model is counted in cents (1/EUR).
EUR == 100

\* class InvestmentConstants
INCOME_TAX_RATE == 220000
SETUP_COST_EUR == 1000 * EUR
MORTGAGE_INTEREST_RATE == 40000
MONTHS_PER_YEAR == 12
VALID_SCENARIOS == <<"HEA", "KESKMINE", "HALB">>
START_YEAR == 2026
END_YEAR == 2040

Elements(tuple) == {tuple[i] : i \in 1..Len(tuple)}

\* AccountInfo(summa, kasum)
AccountInfo(summa, kasum) == [summa |-> summa * EUR, kasum |-> kasum * EUR]

\* InvestmentConfig(): the defaults of the dataclass
DefaultConfig ==
    [ kontod |-> << <<"Laps1", AccountInfo(21000, 5100)>>,
                    <<"Laps2", AccountInfo(17000, 5000)>>,
                    <<"Mart", AccountInfo(19000, 1200)>>,
                    <<"Kerli", AccountInfo(30000, 2500)>> >>,
      algne_kuu |-> 2000 * EUR,
      sissemaksed |->
          [ sts \in Elements(VALID_SCENARIOS) |->
              CASE sts = "HEA" ->
                      << <<"Mart", 1000 * EUR>>, <<"Kerli", 1000 * EUR>>,
                         <<"Laps1", 150 * EUR>>, <<"Laps2", 150 * EUR>> >>
                [] sts = "KESKMINE" ->
                      << <<"Mart", 850 * EUR>>, <<"Kerli", 850 * EUR>>,
                         <<"Laps1", 150 * EUR>>, <<"Laps2", 150 * EUR>> >>
                [] sts = "HALB" ->
                      << <<"Mart", 1000 * EUR>>, <<"Kerli", 200 * EUR>>,
                         <<"Laps1", 150 * EUR>>, <<"Laps2", 150 * EUR>> >> ],
      tootlused |->
          [ sts \in Elements(VALID_SCENARIOS) |->
              CASE sts = "HEA" -> 100000
                [] sts = "KESKMINE" -> 80000
                [] sts = "HALB" -> 50000 ],
      uuri_hypoteek_2026 |-> 142635 * EUR,
      uuri_igakuine_makse |-> 760 * EUR,
      uuri_tulu_bruto |-> 1100 * EUR,
      uuri_maks |-> 194 * EUR,
      uuri_hooldus |-> 11 * EUR,
      uuri_neto |-> 1089 * EUR,
      tagasimakse_aasta |-> 2030,
      mart_tagasimakse |-> 5466250,
      kerli_tagasimakse |-> 5466250 ]

\* account configurations a caller may pass: the defaults; accounts without
\* profit that sum to 84100; one account only
KontodSets ==
    { DefaultConfig.kontod,
      << <<"Laps1", AccountInfo(21000, 0)>>, <<"Laps2", AccountInfo(17000, 0)>>,
         <<"Mart", AccountInfo(19000, 0)>>, <<"Kerli", AccountInfo(27100, 0)>> >>,
      << <<"Mart", AccountInfo(50000, 0)>> >> }

\* (uuri_hypoteek_2026, uuri_igakuine_makse): the defaults; a small mortgage
\* that is paid off within a few years; a payment below the interest
MortgagePlans ==
    { <<142635 * EUR, 760 * EUR>>, <<20000 * EUR, 760 * EUR>>, <<142635 * EUR, 400 * EUR>> }

OUConfigs ==
    { [DefaultConfig EXCEPT !.kontod = k, !.uuri_hypoteek_2026 = m[1],
                            !.uuri_igakuine_makse = m[2]] :
      k \in KontodSets, m \in MortgagePlans }

RECURSIVE SumField(_, _)
\* sum(acc.<field> for acc in kontod.values())
SumField(kontod, field) ==
    IF kontod = <<>> THEN 0
    ELSE (IF field = "summa" THEN kontod[1][2].summa ELSE kontod[1][2].kasum)
         + SumField(Tail(kontod), field)

\* _calculate_initial_loans
CalculateInitialLoans ==
    << <<"Mart", 18500 * EUR>>, <<"Kerli", 29100 * EUR>>,
       <<"Laps1", 19600 * EUR>>, <<"Laps2", 15800 * EUR>> >>

\* _verify_loan_totals: the loans after the verification
VerifyLoanTotals(alglaenud, algkapital) ==
    LET laenude_summa == SumValues(alglaenud)
    IN IF Abs(laenude_summa - algkapital) > 100 * EUR
       THEN Put(alglaenud, "Laps2", algkapital - (laenude_summa - Get(alglaenud, "Laps2")))
       ELSE alglaenud

\* _initialize_calculations: the object after __init__
InitializeCalculations(config) ==
    LET kogusumma == SumField(config.kontod, "summa")
        kogukasum == SumField(config.kontod, "kasum")
        valjumismaks_summa == MulRate(kogukasum, INCOME_TAX_RATE)
        seadistuskulud == SETUP_COST_EUR
        kogukulud == valjumismaks_summa + seadistuskulud
        algkapital == kogusumma - kogukulud
    IN [ config |-> config,
         kogusumma |-> kogusumma,
         kogukasum |-> kogukasum,
         valjumismaks_summa |-> valjumismaks_summa,
         seadistuskulud |-> seadistuskulud,
         kogukulud |-> kogukulud,
         algkapital |-> algkapital,
         alglaenud |-> VerifyLoanTotals(CalculateInitialLoans, algkapital) ]

\* kuuintress = MORTGAGE_INTEREST_RATE / MONTHS_PER_YEAR is 1/300 exactly:
\* the number the balance is divided by to get a month's interest
KuuintressInverse == (MONTHS_PER_YEAR * RS) \div MORTGAGE_INTEREST_RATE

\* the body of the month loop of arvuta_uuri_hypoteek, kuud months to go
RECURSIVE HypoteekLoop(_, _, _)
HypoteekLoop(bilanss, kuud, makse) ==
    IF kuud = 0 \/ bilanss <= 0 THEN bilanss
    ELSE LET intress == DivInt(bilanss, KuuintressInverse)
             pohiosa == makse - intress
             rest == bilanss - pohiosa
         IN HypoteekLoop(IF rest < 0 THEN 0 ELSE rest, kuud - 1, makse)

\* (mutation) the year before the start already carries the mortgage
ArvutaUuriHypoteek_FromYearBefore(config, aasta) ==
    IF aasta < START_YEAR - 1 THEN 0
    ELSE HypoteekLoop(config.uuri_hypoteek_2026,
                      Max(0, (aasta - START_YEAR) * MONTHS_PER_YEAR),
                      config.uuri_igakuine_makse)

\* arvuta_uuri_hypoteek(aasta)
ArvutaUuriHypoteek(config, aasta) ==
    IF aasta < START_YEAR THEN 0
    ELSE HypoteekLoop(config.uuri_hypoteek_2026,
                      (aasta - START_YEAR) * MONTHS_PER_YEAR,
                      config.uuri_igakuine_makse)

\* arvuta_stsenaarium: aastad
\* (mutation) range(START_YEAR, END_YEAR): the last year is left out
Aastad_WithoutEndYear == [i \in 1..(END_YEAR - START_YEAR) |-> START_YEAR + i - 1]

\* list(range(START_YEAR, END_YEAR + 1))
Aastad == [i \in 1..(END_YEAR - START_YEAR + 1) |-> START_YEAR + i - 1]

\* _validate_scenario: whether the name passes (it raises ValueError if not)
ValidateScenario(scenario) == scenario \in Elements(VALID_SCENARIOS)

\* {isik: f(summa) for isik, summa in d.items()}
MapValues(d, f(_)) == [i \in 1..Len(d) |-> <<d[i][1], f(d[i][2])>>]

\* one pass of the year loop of arvuta_stsenaarium for year aasta: the row
\* appended and the balance and loans carried to the next year
YearRow(self, sissemaksed, tootlus, aasta, eelmine_bilanss, eelmised_laenud) ==
    LET algbilanss == eelmine_bilanss
        alglaenud == eelmised_laenud
        kogulaaen_algus == SumValues(alglaenud)
        kogusumma_kuu == SumValues(sissemaksed)
        aasta_sissemakse ==
            IF aasta = START_YEAR
            THEN self.config.algne_kuu * 11 + kogusumma_kuu
            ELSE kogusumma_kuu * MONTHS_PER_YEAR
        laenu_lisad ==
            IF aasta = START_YEAR
            THEN MapValues(sissemaksed,
                           LAMBDA summa :
                               MulDiv(self.config.algne_kuu, summa, kogusumma_kuu) * 11 + summa)
            ELSE MapValues(sissemaksed, LAMBDA summa : summa * MONTHS_PER_YEAR)
        uuri_tulu ==
            IF aasta > self.config.tagasimakse_aasta
            THEN self.config.uuri_neto * MONTHS_PER_YEAR
            ELSE 0
        keskmine_bilanss == algbilanss + DivInt(aasta_sissemakse, 2) + DivInt(uuri_tulu, 2)
        investeerimiskasum == MulRate(keskmine_bilanss, tootlus)
        uuri_tagasimakse ==
            IF aasta = self.config.tagasimakse_aasta
            THEN self.config.mart_tagasimakse + self.config.kerli_tagasimakse
            ELSE 0
        laenu_vahenemised ==
            IF aasta = self.config.tagasimakse_aasta
            THEN << <<"Mart", self.config.mart_tagasimakse>>,
                    <<"Kerli", self.config.kerli_tagasimakse>>,
                    <<"Laps1", 0>>, <<"Laps2", 0>> >>
            ELSE MapValues(sissemaksed, LAMBDA summa : 0)
        loppbilanss ==
            algbilanss + aasta_sissemakse + uuri_tulu + investeerimiskasum - uuri_tagasimakse
        lopp_laenud ==
            [i \in 1..Len(sissemaksed) |->
                LET isik == sissemaksed[i][1]
                IN <<isik, Get(alglaenud, isik) + Get(laenu_lisad, isik)
                             - Get(laenu_vahenemised, isik)>>]
        kogulaaen_lopp == SumValues(lopp_laenud)
        kasumid == loppbilanss - kogulaaen_lopp
    IN [ tulemus |->
            [ Aasta |-> aasta,
              Algbilanss |-> algbilanss,
              Laen_Algus |-> alglaenud,
              Kogulaaen_Algus |-> kogulaaen_algus,
              Aastasissemakse |-> aasta_sissemakse,
              Lisa |-> laenu_lisad,
              Uuri_Tulu |-> uuri_tulu,
              Investeerimiskasum |-> investeerimiskasum,
              Uuri_Tagasimakse |-> uuri_tagasimakse,
              Tagasimakse |-> laenu_vahenemised,
              Loppbilanss |-> loppbilanss,
              Laen_Lopp |-> lopp_laenud,
              Kogulaaen_Lopp |-> kogulaaen_lopp,
              Kasumid |-> kasumid,
              Uuri_Hypoteek |-> ArvutaUuriHypoteek(self.config, aasta) ],
         loppbilanss |-> loppbilanss,
         lopp_laenud |-> lopp_laenud ]

\* scenario names a caller may pass
ScenarioNames == Elements(VALID_SCENARIOS) \cup {"INVALID"}

\* OUInvestmentModel(config)
OUConstruct ==
    /\ ou = None
    /\ \E config \in OUConfigs : ou' = InitializeCalculations(config)
    /\ UNCHANGED <<ou_pc, ou_call, tulemused, ou_result, hypoteek_calls>>
    /\ UNCHANGED mc_vars

\* arvuta_stsenaarium(sissemakse_stsenaarium, tootlus_stsenaarium) is called.
\* As in the tests, a model object is constructed and then used for one of
\* the two methods: a scenario, or mortgage balances.
ArvutaStsenaarium ==
    /\ ou # None /\ ou_pc = "idle" /\ ou_result = None
    /\ hypoteek_calls = <<>>
    /\ \E s1 \in ScenarioNames, s2 \in ScenarioNames :
          ou_call' = [sissemakse_stsenaarium |-> s1, tootlus_stsenaarium |-> s2,
                      idx |-> 0, eelmine_bilanss |-> 0, eelmised_laenud |-> <<>>]
    /\ ou_pc' = "validate_sissemakse"
    /\ UNCHANGED <<ou, tulemused, ou_result, hypoteek_calls>>
    /\ UNCHANGED mc_vars

ValueError(scenario_type) == [raised |-> "ValueError", scenario_type |-> scenario_type]

\* self._validate_scenario(sissemakse_stsenaarium, "contribution (sissemakse)")
ValidateSissemakse ==
    /\ ou_pc = "validate_sissemakse"
    /\ IF ValidateScenario(ou_call.sissemakse_stsenaarium)
       THEN ou_pc' = "validate_tootlus" /\ UNCHANGED ou_result
       ELSE ou_pc' = "idle" /\ ou_result' = ValueError("contribution (sissemakse)")
    /\ UNCHANGED <<ou, ou_call, tulemused, hypoteek_calls>>
    /\ UNCHANGED mc_vars

\* self._validate_scenario(tootlus_stsenaarium, "return (tootlus)"), then the
\* locals before the year loop
ValidateTootlus ==
    /\ ou_pc = "validate_tootlus"
    /\ IF ValidateScenario(ou_call.tootlus_stsenaarium)
       THEN /\ ou_pc' = "year"
            /\ ou_call' = [ou_call EXCEPT !.idx = 1,
                                          !.eelmine_bilanss = ou.algkapital,
                                          !.eelmised_laenud = ou.alglaenud]
            /\ UNCHANGED ou_result
       ELSE /\ ou_pc' = "idle"
            /\ ou_result' = ValueError("return (tootlus)")
            /\ UNCHANGED ou_call
    /\ UNCHANGED <<ou, tulemused, hypoteek_calls>>
    /\ UNCHANGED mc_vars

\* one pass of `for aasta in aastad`
YearStep ==
    /\ ou_pc = "year"
    /\ ou_call.idx <= Len(Aastad)
    /\ \E step \in {YearRow(ou, ou.config.sissemaksed[ou_call.sissemakse_stsenaarium],
                             ou.config.tootlused[ou_call.tootlus_stsenaarium],
                             Aastad[ou_call.idx],
                             ou_call.eelmine_bilanss, ou_call.eelmised_laenud)} :
          /\ tulemused' = Append(tulemused, step.tulemus)
          /\ ou_call' = [ou_call EXCEPT !.idx = @ + 1,
                                        !.eelmine_bilanss = step.loppbilanss,
                                        !.eelmised_laenud = step.lopp_laenud]
    /\ UNCHANGED <<ou, ou_pc, ou_result, hypoteek_calls>>
    /\ UNCHANGED mc_vars

\* return pd.DataFrame(tulemused)
ReturnDataFrame ==
    /\ ou_pc = "year"
    /\ ou_call.idx > Len(Aastad)
    /\ ou_result' = [returned |-> tulemused]
    /\ ou_pc' = "idle"
    /\ UNCHANGED <<ou, ou_call, tulemused, hypoteek_calls>>
    /\ UNCHANGED mc_vars

\* years a caller asks the mortgage balance of
MaxAhead == 5
HypoteekYears == (START_YEAR - 2)..(START_YEAR + MaxAhead)

\* arvuta_uuri_hypoteek(aasta), called directly; the last two calls are kept
UuriHypoteek ==
    /\ ou # None /\ ou_pc = "idle" /\ ou_call = None
    /\ \E aasta \in HypoteekYears :
          LET this == [aasta |-> aasta, bilanss |-> ArvutaUuriHypoteek(ou.config, aasta)]
          IN hypoteek_calls' =
                IF hypoteek_calls = <<>> THEN <<this>>
                ELSE <<hypoteek_calls[Len(hypoteek_calls)], this>>
    /\ UNCHANGED <<ou, ou_pc, ou_call, tulemused, ou_result>>
    /\ UNCHANGED mc_vars

OUInit ==
    /\ simulators = <<>>
    /\ rng = 0
    /\ rng_writer = SeedWriter
    /\ pc = "idle"
    /\ call = NoCall
    /\ paths = <<>> /\ payouts_paths = <<>> /\ taxes_paths = <<>>
    /\ costs_paths = <<>> /\ deposit_pot_paths = <<>>
    /\ sim = 0
    /\ sim_balances = <<>> /\ total_invested = 0 /\ total_withdrawn = 0
    /\ year_idx = 0 /\ withdrawal_budget = 0
    /\ year_net_payout = 0 /\ year_tax = 0 /\ year_costs = 0
    /\ month = 0
    /\ excess_seen = FALSE
    /\ history = <<>>
    /\ OUIdle

OUNext == OUConstruct \/ ArvutaStsenaarium \/ ValidateSissemakse \/ ValidateTootlus
             \/ YearStep \/ ReturnDataFrame \/ UuriHypoteek

OUSpec == OUInit /\ [][OUNext]_vars

\* ------------------------------------------------------------ properties

CallActive == call # NoCall
Returned == pc = "idle" /\ history # <<>>
Last == history[Len(history)]
InPath == pc \in {"year_start", "contribution", "costs", "withdrawal", "market", "year_end"}

RECURSIVE SumAbs(_)
SumAbs(d) == IF d = <<>> THEN 0 ELSE Abs(d[1][2]) + SumAbs(Tail(d))

\* what the rounding of a proportional deduction can move the total by
Slack(bals) == Len(bals) + (SumAbs(bals) \div RS) + 1

AllZero(dict) == \A r \in DOMAIN dict : \A y \in DOMAIN dict[r] : dict[r][y] = 0
AllRanksEqual(dict) ==
    \A r \in DOMAIN dict : \A y \in DOMAIN dict[r] : dict[r][y] = dict[1][y]

\* C1: a call whose configuration names an asset without AssetParams fails
\* in setup: it never gets to simulate a path, returns no result, and no
\* zero-return parameters are made up for the missing asset.
MissingParams ==
    CallActive /\ \E isin \in AllIsins(Cfg) : isin \notin DOMAIN simulators[call.self].asset_params
C1_MissingParamsFailSetup ==
    MissingParams =>
        /\ ~ InPath
        /\ pc # "aggregate"
        /\ \A i \in 1..Len(history) : history[i].cfg # Cfg \/ history[i].self # call.self
        /\ \A isin \in DOMAIN call.asset_monthly_params :
              isin \in DOMAIN simulators[call.self].asset_params

\* C2: every asset balance of a path is >= 0 in every state of the path,
\* whatever the monthly returns drawn (draws below -1 included).
C2_BalancesNonNegative ==
    \A i \in 1..Len(sim_balances) : sim_balances[i][2] >= 0

\* C4: paths share no mutable state: the generator state a path reads when
\* it draws was written by the seeding or by that path itself, never by
\* another path.
C4_PathsShareNoState ==
    (pc = "market" /\ Draws(sim_balances)) =>
        (rng_writer = SeedWriter \/ rng_writer = PathWriter)

\* C6: in a month whose monthly withdrawal is > 0, the withdrawal step
\* changes nothing when the total balance is below the monthly withdrawal,
\* and otherwise takes exactly the full monthly withdrawal (the balances
\* give it up to the rounding of the proportional factor).
C6_WithdrawalAllOrNothing ==
    [][ (pc = "withdrawal" /\ MonthlyWd > 0) =>
            IF SumValues(sim_balances) < MonthlyWd
            THEN UNCHANGED <<sim_balances, total_withdrawn, year_net_payout, year_tax>>
            ELSE /\ total_withdrawn' = total_withdrawn + MonthlyWd
                 /\ year_net_payout' + year_tax' = year_net_payout + year_tax + MonthlyWd
                 /\ Abs(SumValues(sim_balances') - (SumValues(sim_balances) - MonthlyWd))
                       <= Slack(sim_balances) ]_vars
\* a month whose withdrawal was skipped with a positive balance left, after
\* months whose withdrawals were all taken
C6_Witness ==
    /\ pc = "market" /\ MonthlyWd > 0 /\ month > 0
    /\ year_net_payout + year_tax = month * MonthlyWd
    /\ total_withdrawn > 0
    /\ SumValues(sim_balances) > 0
    /\ SumValues(sim_balances) < MonthlyWd

\* C7: an executed withdrawal of gross amount w, with W withdrawn before and
\* basis I, is taxed 0.22 * (max(0, W + w - I) - max(0, W - I)); the net
\* payout is w minus that tax; total_withdrawn becomes W + w, the tax having
\* been computed from the old W.
C7_IncrementalTax ==
    [][ (pc = "withdrawal" /\ total_withdrawn' # total_withdrawn) =>
            LET w == MonthlyWd
                W == total_withdrawn
                I == total_invested
                tax == MulRate(Max(0, W + w - I) - Max(0, W - I), TAX_RATE)
            IN /\ year_tax' - year_tax = tax
               /\ year_net_payout' - year_net_payout = w - tax
               /\ total_withdrawn' = W + w ]_vars
\* a withdrawal just taken when earlier withdrawals already exceeded the
\* basis, and one just taken that crosses the basis
C7_Witness ==
    /\ pc = "market" /\ MonthlyWd > 0
    /\ year_net_payout + year_tax = (month + 1) * MonthlyWd
    /\ year_tax > 0
    /\ total_withdrawn - MonthlyWd > total_invested

\* C8: if no path ever ends a month with total_withdrawn > total_invested,
\* the recorded tax is 0 for every path and year, and taxes_percentiles is 0
\* at every rank and year.
C8_NoExcessNoTax ==
    (Returned /\ ~ Last.excess_seen) =>
        /\ \A i \in 1..Len(taxes_paths) : \A y \in 1..Len(taxes_paths[i]) : taxes_paths[i][y] = 0
        /\ AllZero(Last.result.taxes_percentiles)
C8_Witness ==
    /\ Returned /\ ~ Last.excess_seen
    /\ \E i \in 1..Len(payouts_paths) : \E y \in 1..Len(payouts_paths[i]) : payouts_paths[i][y] > 0
    /\ total_withdrawn > 0

\* C9: deposit_pot_p50[y] is the starting capital plus 12 monthly
\* contributions for every simulated year up to y that lies before
\* contribution_end_year, whatever the draws, costs, withdrawals and seed.
ContributingYears(cfg, y) ==
    Cardinality({k \in 1..y : cfg.contribution_end_year = None
                               \/ cfg.start_year + k - 1 < cfg.contribution_end_year[1]})
C9_DepositPot ==
    Returned =>
        \A y \in 1..Len(Last.result.years) :
            Last.result.deposit_pot_p50[y] =
                SumValues(Last.cfg.current_assets)
                + 12 * SumValues(Last.cfg.monthly_allocations) * ContributingYears(Last.cfg, y)
C9_Witness ==
    /\ Returned
    /\ Last.cfg.monthly_allocations # <<>>
    /\ Last.cfg.contribution_end_year # None
    /\ Len(Last.result.years) >= 2
    /\ Last.cfg.contribution_end_year[1] <= Last.cfg.end_year
    /\ Last.cfg.withdrawal_rate > 0 /\ Last.cfg.annual_costs > 0
    /\ \E i \in 1..Len(paths) : paths[i] # paths[1]

\* C10: when every asset has annual_volatility = 0, all paths go through the
\* same states: for every year the 99 percentiles of balance, payout, tax and
\* cost are equal, and the balance percentiles equal the mean.
ZeroVolatility(ap) == \A isin \in DOMAIN ap : ap[isin].annual_volatility = 0
C10_ZeroVolatility ==
    (Returned /\ ZeroVolatility(simulators[Last.self].asset_params)) =>
        /\ AllRanksEqual(Last.result.percentiles)
        /\ AllRanksEqual(Last.result.payouts_percentiles)
        /\ AllRanksEqual(Last.result.taxes_percentiles)
        /\ AllRanksEqual(Last.result.costs_percentiles)
        /\ \A y \in 1..Len(Last.result.years) :
              Last.result.mean[y] = Last.result.percentiles[1][y]
C10_Witness ==
    /\ Returned /\ ZeroVolatility(simulators[Last.self].asset_params)
    /\ simulators[Last.self].n_simulations >= 2
    /\ Len(Last.result.years) >= 1
    /\ Last.result.percentiles[50][1] > 0
    /\ Last.result.payouts_percentiles[50][1] > 0
    /\ Last.result.costs_percentiles[50][1] > 0

\* the simulator a returned call ran on
SimulatorOf(h) == simulators[h.self]
SameSetup(h1, h2) ==
    /\ SimulatorOf(h1).asset_params = SimulatorOf(h2).asset_params
    /\ SimulatorOf(h1).n_simulations = SimulatorOf(h2).n_simulations
    /\ SimulatorOf(h1).seed # None
    /\ SimulatorOf(h1).seed = SimulatorOf(h2).seed

\* C3: two calls with the same configuration on simulators given the same
\* seed return identical results, a second call on the same simulator and
\* calls separated by other constructions or runs included.
C3_SeedDeterminism ==
    \A i, j \in 1..Len(history) :
        (SameSetup(history[i], history[j]) /\ history[i].cfg = history[j].cfg)
            => history[i].result = history[j].result

\* C5: of two runs that differ only in annual_costs, both started on a
\* generator freshly seeded with the same seed, the run with the higher
\* costs has a mean ending balance that is no higher, in every year.
FreshlySeeded(h) == h.rng0 = SeedState(SimulatorOf(h).seed[1])
C5_CostMonotone ==
    \A i, j \in 1..Len(history) :
        ( /\ SameSetup(history[i], history[j])
          /\ FreshlySeeded(history[i]) /\ FreshlySeeded(history[j])
          /\ history[j].cfg = [history[i].cfg EXCEPT !.annual_costs = history[j].cfg.annual_costs]
          /\ history[i].cfg.annual_costs <= history[j].cfg.annual_costs )
            => \A y \in 1..Len(history[i].result.years) :
                  history[j].result.mean[y] <= history[i].result.mean[y]

\* C11: within every month the steps run in the order contribution, cost
\* deduction, withdrawal, market return, each exactly once: every step works
\* on the balances the step before it left, and only the market return ends
\* the month.
MonthSteps == {"contribution", "costs", "withdrawal", "market"}
C11_MonthStepOrder ==
    [][ /\ pc = "contribution" => (pc' = "costs" /\ month' = month)
        /\ pc = "costs" => (pc' = "withdrawal" /\ month' = month)
        /\ pc = "withdrawal" => (pc' = "market" /\ month' = month)
        /\ pc = "market" => (month' = month + 1 /\ pc' \in {"contribution", "year_end"})
        /\ pc' = "contribution" => pc \in {"year_start", "market"}
        /\ (pc' \in MonthSteps /\ pc' # "contribution") => pc \in MonthSteps ]_vars
\* the first month of an account that starts empty: the cost step has
\* charged the contribution of that very month
C11_Witness ==
    /\ pc = "market" /\ year_idx = 0 /\ month = 0
    /\ call.starting_capital = 0
    /\ total_invested > 0
    /\ year_costs > 0

\* C12: the year's withdrawal budget is the sum of the balances at the start
\* of the year times withdrawal_rate when the year has reached
\* withdrawal_start_year and the rate is > 0, and 0 otherwise; it keeps that
\* value through the 12 months; every executed withdrawal is budget/12 and
\* the gross withdrawals of the year never exceed the budget (12 roundings
\* of budget/12 apart).
RoundingOfYear == MONTHS \div 2
C12_YearlyBudget ==
    [][ /\ pc = "year_start" =>
              withdrawal_budget' =
                  IF Year >= Cfg.withdrawal_start_year /\ Cfg.withdrawal_rate > 0
                  THEN MulRate(SumValues(sim_balances), Cfg.withdrawal_rate)
                  ELSE 0
        /\ pc \in MonthSteps =>
              /\ withdrawal_budget' = withdrawal_budget
              /\ total_withdrawn' # total_withdrawn =>
                    total_withdrawn' - total_withdrawn = DivInt(withdrawal_budget, MONTHS)
              /\ year_net_payout' + year_tax' <= withdrawal_budget + RoundingOfYear ]_vars

\* C13: in a month of year y the contribution step adds each asset's
\* monthly allocation to that asset's balance and their sum to
\* total_invested when contribution_end_year is unset or y is before it, and
\* changes neither the balances nor total_invested in a year from
\* contribution_end_year on.
AllocationOf(isin) ==
    IF Has(Cfg.monthly_allocations, isin) THEN Get(Cfg.monthly_allocations, isin) ELSE 0
C13_ContributionCutoff ==
    [][ pc = "contribution" =>
            IF Cfg.contribution_end_year = None \/ Year < Cfg.contribution_end_year[1]
            THEN /\ Keys(sim_balances') = Keys(sim_balances)
                 /\ \A isin \in Keys(sim_balances) :
                       Get(sim_balances', isin) =
                           Get(sim_balances, isin) + AllocationOf(isin)
                 /\ total_invested' =
                       total_invested + SumValues(Cfg.monthly_allocations)
            ELSE UNCHANGED <<sim_balances, total_invested>> ]_vars
\* the first contribution step of the cutoff year, after a year of
\* contributions: the basis is still that of the year before
C13_Witness ==
    /\ pc = "costs" /\ month = 0
    /\ Cfg.monthly_allocations # <<>>
    /\ Cfg.contribution_end_year # None
    /\ Year >= Cfg.contribution_end_year[1]
    /\ year_idx = 1
    /\ total_invested = call.starting_capital + 12 * SumValues(Cfg.monthly_allocations)

\* C14: with annual_costs > 0 and a total balance T > 0 the cost step
\* records min(annual_costs / 12, T) as the month's cost and the total
\* balance drops by that amount (up to the rounding of the proportional
\* factor); with annual_costs = 0 or T <= 0 it records nothing and changes no
\* balance. The cost recorded for the year is the sum of the amounts of its
\* months: it starts at 0, only the cost step adds to it, and the year end
\* writes it to the outcome matrix.
C14_CostStep ==
    [][ /\ pc = "costs" =>
              LET T == SumValues(sim_balances)
                  full == DivInt(Cfg.annual_costs, MONTHS)
                  charged == IF full < T THEN full ELSE T
              IN IF Cfg.annual_costs > 0 /\ T > 0
                 THEN /\ year_costs' = year_costs + charged
                      /\ Abs(SumValues(sim_balances') - (T - charged)) <= Slack(sim_balances)
                 ELSE UNCHANGED <<year_costs, sim_balances>>
        /\ pc = "year_start" => year_costs' = 0
        /\ pc \in (MonthSteps \ {"costs"}) => year_costs' = year_costs
        /\ pc = "year_end" => costs_paths'[sim + 1][year_idx + 1] = year_costs ]_vars
\* a cost step that has just charged less than annual_costs / 12 because the
\* balance was smaller, and has left nothing
C14_Witness ==
    /\ pc = "withdrawal"
    /\ Cfg.annual_costs > 0
    /\ year_costs > 0
    /\ year_costs % DivInt(Cfg.annual_costs, MONTHS) # 0
    /\ SumValues(sim_balances) = 0

\* C15: the market-return step multiplies the balance of every asset whose
\* balance is > 0 by (1 + draw), with one draw of the generator per such
\* asset, taken in the order of the assets; an asset whose balance is 0
\* stays at exactly 0 and consumes no draw.
RECURSIVE RngAfter(_, _)
RngAfter(s, k) == IF k = 0 THEN s ELSE RngAfter(RngNext(s), k - 1)
PositiveUpTo(bals, i) == Cardinality({j \in 1..i : bals[j][2] > 0})
C15_MarketStep ==
    [][ pc = "market" =>
            /\ Len(sim_balances') = Len(sim_balances)
            /\ \A i \in 1..Len(sim_balances) :
                  LET isin == sim_balances[i][1]
                      bal == sim_balances[i][2]
                      params == call.asset_monthly_params[isin]
                      draw == NormalDraw(params.mu, params.sigma,
                                         RngAfter(rng, PositiveUpTo(sim_balances, i)))
                  IN /\ sim_balances'[i][1] = isin
                     /\ bal > 0 => sim_balances'[i][2] = MulRate(bal, RS + draw)
                     /\ bal = 0 => sim_balances'[i][2] = 0
            /\ rng' = RngAfter(rng, PositiveUpTo(sim_balances, Len(sim_balances))) ]_vars
\* a market step has just run on an asset at zero next to an asset with a
\* positive balance, which drew
C15_Witness ==
    /\ pc \in {"contribution", "year_end"} /\ month >= 1
    /\ rng_writer = PathWriter
    /\ \E i \in 1..Len(sim_balances) : sim_balances[i][2] = 0
    /\ \E i \in 1..Len(sim_balances) : sim_balances[i][2] > 0

\* C16: along a path total_invested never decreases and only the
\* contribution step changes it: the cost deduction, the withdrawal (tax
\* included) and the market return leave it as it is.
C16_InvestedMonotone ==
    [][ InPath =>
            /\ total_invested' >= total_invested
            /\ total_invested' # total_invested => pc = "contribution"
            /\ pc \in {"costs", "withdrawal", "market"} =>
                  total_invested' = total_invested ]_vars
\* a month has been completed in which a contribution raised the basis, a
\* cost was charged, a withdrawal was taken and a return was drawn
C16_Witness ==
    /\ pc = "contribution" /\ month >= 1
    /\ total_invested > call.starting_capital
    /\ year_costs > 0
    /\ total_withdrawn > 0
    /\ rng_writer = PathWriter

\* C17: along a path total_withdrawn starts at 0 and never decreases; it
\* changes only in the withdrawal step of a month whose withdrawal is
\* executed (budget > 0 and total balance >= the monthly withdrawal), and
\* then it grows by exactly the gross monthly withdrawal, which is what the
\* month pays out as net payout plus tax.
C17_WithdrawnMonotone ==
    [][ /\ pc = "path_start" => total_withdrawn' = 0
        /\ InPath =>
              /\ total_withdrawn' >= total_withdrawn
              /\ total_withdrawn' # total_withdrawn =>
                    /\ pc = "withdrawal"
                    /\ withdrawal_budget > 0
                    /\ SumValues(sim_balances) >= DivInt(withdrawal_budget, MONTHS)
              /\ total_withdrawn' - total_withdrawn \in {0, DivInt(withdrawal_budget, MONTHS)}
              /\ total_withdrawn' - total_withdrawn =
                    (year_net_payout' + year_tax') - (year_net_payout + year_tax)
                 \/ pc = "year_start" ]_vars
\* the second year of a path that withdrew in its first year, has withdrawn
\* this year, and has skipped a month of this year
C17_Witness ==
    /\ pc = "market" /\ year_idx = 1
    /\ year_net_payout + year_tax > 0
    /\ total_withdrawn > year_net_payout + year_tax
    /\ year_net_payout + year_tax < (month + 1) * MonthlyWd

\* C18: for every year and every rank r in 1..98 the value at rank r is at
\* most the value at rank r + 1, in percentiles, payouts_percentiles,
\* taxes_percentiles and costs_percentiles.
RankOrdered(dict) ==
    \A r \in 1..98 : \A y \in DOMAIN dict[r] : dict[r][y] <= dict[r + 1][y]
C18_PercentilesOrdered ==
    Returned =>
        /\ RankOrdered(Last.result.percentiles)
        /\ RankOrdered(Last.result.payouts_percentiles)
        /\ RankOrdered(Last.result.taxes_percentiles)
        /\ RankOrdered(Last.result.costs_percentiles)
\* a result over paths that differ, the higher outcome in the first row
C18_Witness ==
    /\ Returned
    /\ Len(paths) >= 2
    /\ Len(Last.result.years) >= 1
    /\ paths[1][1] > paths[2][1]
    /\ Last.result.percentiles[1][1] < Last.result.percentiles[99][1]
    /\ \E y \in 1..Len(Last.result.years) :
          Last.result.payouts_percentiles[1][y] < Last.result.payouts_percentiles[99][y]

\* C19: the result is a function of the multiset of path rows: with the rows
\* of the paths placed in the outcome matrices in any other order, the
\* aggregation gives the same percentile series, mean and deposit_pot_p50.
PermuteRows(matrix, f) == [i \in 1..Len(matrix) |-> matrix[f[i]]]
C19_RowOrderIrrelevant ==
    Returned =>
        \A f \in Permutations(1..Len(paths)) :
            Aggregation(PermuteRows(paths, f), PermuteRows(payouts_paths, f),
                        PermuteRows(taxes_paths, f), PermuteRows(costs_paths, f),
                        PermuteRows(deposit_pot_paths, f)) = Last.result
\* a result over two paths with different balance, payout and cost rows
C19_Witness ==
    /\ Returned
    /\ Len(paths) >= 2
    /\ paths[1] # paths[2]
    /\ payouts_paths[1] # payouts_paths[2]
    /\ costs_paths[1] # costs_paths[2]
    /\ Len(Last.result.years) >= 2

\* C20: in every returned result p10, p50 and p90 are percentiles[10],
\* percentiles[50] and percentiles[90], and to_dict emits under 'p10', 'p50'
\* and 'p90' what it emits under 'percentiles' for 10, 50 and 90.
C20_LegacyAliases ==
    Returned =>
        /\ Last.result.p10 = Last.result.percentiles[10]
        /\ Last.result.p50 = Last.result.percentiles[50]
        /\ Last.result.p90 = Last.result.percentiles[90]
        /\ ToDict(Last.result).p10 = ToDict(Last.result).percentiles[10]
        /\ ToDict(Last.result).p50 = ToDict(Last.result).percentiles[50]
        /\ ToDict(Last.result).p90 = ToDict(Last.result).percentiles[90]
\* a result whose three series differ from each other and from their
\* neighbours in rank, and which to_dict rounds
C20_Witness ==
    /\ Returned
    /\ Len(Last.result.years) >= 1
    /\ Last.result.p10[1] < Last.result.p50[1]
    /\ Last.result.p50[1] < Last.result.p90[1]
    /\ Last.result.percentiles[10][1] # Last.result.percentiles[11][1]
    /\ ToDict(Last.result).p10 # Last.result.p10

\* C21: a call whose configuration has end_year < start_year, negative
\* annual_costs or a negative withdrawal_rate fails before any path is
\* simulated: it never enters the path loop and returns no result, not even
\* an empty one.
InvalidConfig(cfg) ==
    \/ cfg.end_year < cfg.start_year
    \/ cfg.annual_costs < 0
    \/ cfg.withdrawal_rate < 0
C21_InvalidConfigFails ==
    (CallActive /\ InvalidConfig(Cfg)) =>
        /\ ~ InPath
        /\ pc \notin {"path_start", "aggregate"}
        /\ history = <<>>

\* Scenario C of the specification: X at 1000 with annual return 0.10 and no
\* volatility, no contributions, no costs, one year, withdrawal_rate 1.0
\* from that year
ScenarioC(h) ==
    /\ SimulatorOf(h).asset_params = PZero
    /\ h.cfg.current_assets = << <<"X", 1000 * MS>> >>
    /\ h.cfg.monthly_allocations = <<>>
    /\ h.cfg.annual_costs = 0
    /\ h.cfg.end_year = h.cfg.start_year
    /\ h.cfg.withdrawal_rate = RS
    /\ h.cfg.withdrawal_start_year = h.cfg.start_year

\* C22 (as stated): in scenario C the year's gross withdrawals exceed the
\* invested 1000 (about 1100), the tax recorded for the year is > 0, about
\* 22, and the net payout is about 1078.
C22_ScenarioC_TaxTrigger ==
    (Returned /\ ScenarioC(Last)) =>
        /\ total_withdrawn > 1000 * MS
        /\ \A r \in Ranks :
              /\ Last.result.taxes_percentiles[r][1] > 0
              /\ Abs(Last.result.taxes_percentiles[r][1] - 22 * MS) <= 2 * MS
              /\ Abs(Last.result.payouts_percentiles[r][1] - 1078 * MS) <= 10 * MS

\* C22 (amended): in scenario C the budget is fixed at the start of the year
\* from the balance of 1000, so the year's gross withdrawals are 12 times
\* 1000/12 and do not exceed the invested 1000 by a cent: the tax recorded
\* for the year is below a cent, the net payout is 1000 to the cent, and
\* the growth of the year, between 48 and 50, is left as the ending balance.
C22_ScenarioC_NoTax ==
    (Returned /\ ScenarioC(Last)) =>
        /\ Abs(total_withdrawn - 1000 * MS) < CENT
        /\ \A r \in Ranks :
              /\ Last.result.taxes_percentiles[r][1] >= 0
              /\ Last.result.taxes_percentiles[r][1] < CENT
              /\ Abs(Last.result.payouts_percentiles[r][1] - 1000 * MS) < CENT
              /\ Last.result.percentiles[r][1] > 48 * MS
              /\ Last.result.percentiles[r][1] < 50 * MS
\* scenario C has returned, run over two paths, all 12 withdrawals taken
C22_Witness ==
    /\ Returned /\ ScenarioC(Last)
    /\ SimulatorOf(Last).n_simulations >= 2
    /\ Last.result.payouts_percentiles[50][1] = 12 * DivInt(1000 * MS, MONTHS)

\* C23: whenever the cost step or the withdrawal step computes its
\* proportional factor, the total balance it divides by is > 0 and the
\* factor lies in [0, 1]; with a total of 0 neither step computes a factor.
C23_FactorWellDefined ==
    LET total == SumValues(sim_balances)
    IN /\ (pc = "costs" /\ CostApplies(total)) =>
              /\ total > 0
              /\ DeductionFactor(MonthlyCost(total), total) \in 0..RS
       /\ (pc = "withdrawal" /\ WithdrawalApplies(total)) =>
              /\ total > 0
              /\ DeductionFactor(MonthlyWd, total) \in 0..RS
       /\ (pc \in {"costs", "withdrawal"} /\ total = 0) =>
              (~ CostApplies(total) /\ ~ WithdrawalApplies(total))
\* a capped cost has just taken the whole balance (factor 0) and the
\* withdrawal step now meets a total of 0 with a positive monthly withdrawal
C23_Witness ==
    /\ pc = "withdrawal"
    /\ year_costs > 0
    /\ SumValues(sim_balances) = 0
    /\ withdrawal_budget > 0 /\ MonthlyWd > 0

\* C24: arvuta_stsenaarium raises ValueError and returns no projection
\* whenever the contribution or the return scenario is not one of HEA,
\* KESKMINE, HALB, the contribution scenario being validated first; for
\* every valid pair it returns 15 rows, one per year 2026..2040 in
\* increasing order.
KnownScenario(name) == name \in {"HEA", "KESKMINE", "HALB"}
ScenarioCalled == ou_call # None
ScenarioFinished == ScenarioCalled /\ ou_pc = "idle" /\ ou_result # None
Raised(scenario_type) ==
    /\ "raised" \in DOMAIN ou_result
    /\ ou_result.raised = "ValueError"
    /\ ou_result.scenario_type = scenario_type
C24_ScenarioValidation ==
    /\ (ScenarioCalled /\ ~ (KnownScenario(ou_call.sissemakse_stsenaarium)
                             /\ KnownScenario(ou_call.tootlus_stsenaarium))) =>
          (ou_pc # "year" /\ tulemused = <<>>)
    /\ ScenarioFinished =>
          IF ~ KnownScenario(ou_call.sissemakse_stsenaarium)
          THEN Raised("contribution (sissemakse)")
          ELSE IF ~ KnownScenario(ou_call.tootlus_stsenaarium)
          THEN Raised("return (tootlus)")
          ELSE /\ "returned" \in DOMAIN ou_result
               /\ Len(ou_result.returned) = 15
               /\ \A i \in 1..15 : ou_result.returned[i].Aasta = 2025 + i
\* a call with both names unknown has raised
C24_Witness ==
    /\ ScenarioFinished
    /\ ~ KnownScenario(ou_call.sissemakse_stsenaarium)
    /\ ~ KnownScenario(ou_call.tootlus_stsenaarium)
    /\ Raised("contribution (sissemakse)")

\* C25: arvuta_uuri_hypoteek returns 0 for a year before 2026 and the
\* initial mortgage for 2026; from 2026 on the balance is never negative
\* and, when the monthly payment exceeds the monthly interest, it is
\* strictly lower in the next year while it is positive and stays 0 once
\* it is 0.
\* the payment exceeds a month's interest (4% a year, 1/300 a month) on
\* the initial balance, hence on every later balance
PaymentExceedsInterest(config) ==
    config.uuri_igakuine_makse * 300 > config.uuri_hypoteek_2026
C25_MortgageBalance ==
    /\ \A i \in 1..Len(hypoteek_calls) :
          LET c == hypoteek_calls[i]
          IN /\ c.aasta < 2026 => c.bilanss = 0
             /\ c.aasta = 2026 => c.bilanss = ou.config.uuri_hypoteek_2026
             /\ c.bilanss >= 0
    /\ \A i, j \in 1..Len(hypoteek_calls) :
          LET a == hypoteek_calls[i]
              b == hypoteek_calls[j]
          IN (a.aasta >= 2026 /\ b.aasta = a.aasta + 1 /\ PaymentExceedsInterest(ou.config)) =>
                IF a.bilanss > 0 THEN b.bilanss < a.bilanss ELSE b.bilanss = 0

\* two calls for consecutive years: the mortgage still open in the first,
\* paid off in the second
C25_Witness ==
    /\ Len(hypoteek_calls) = 2
    /\ hypoteek_calls[1].aasta >= 2026
    /\ hypoteek_calls[2].aasta = hypoteek_calls[1].aasta + 1
    /\ PaymentExceedsInterest(ou.config)
    /\ hypoteek_calls[1].bilanss > 0
    /\ hypoteek_calls[1].bilanss < ou.config.uuri_hypoteek_2026
    /\ hypoteek_calls[2].bilanss = 0

\* C26: after OUInvestmentModel is constructed, for any account
\* configuration, the sum of the initial loans differs from the starting
\* capital by strictly less than 100.
C26_LoansMatchCapital ==
    ou # None => Abs(SumValues(ou.alglaenud) - ou.algkapital) < 100 * EUR

\* the withdrawal steps taken so far in the running year
WithdrawalStepsDone == IF pc = "market" THEN month + 1 ELSE month

\* C27: an executed withdrawal of gross amount w charges a tax t with
\* 0 <= t <= 0.22 * w and pays out w - t, a month whose withdrawal is not
\* executed charges and pays nothing; so at every point of a year, and in
\* the values recorded at its end, net payout + tax is the monthly
\* withdrawal times a number of months that is at most the number of
\* withdrawal steps taken, and both the net payout and the tax are >= 0.
C27_WithdrawalSplit ==
    [][ /\ pc = "withdrawal" =>
              LET t == year_tax' - year_tax
                  n == year_net_payout' - year_net_payout
              IN IF WithdrawalApplies(SumValues(sim_balances))
                 THEN /\ 0 <= t /\ t <= MulRate(MonthlyWd, TAX_RATE)
                      /\ n + t = MonthlyWd
                      /\ n >= 0
                 ELSE t = 0 /\ n = 0
        /\ (InPath /\ pc # "withdrawal" /\ pc' # "contribution" /\ pc' \in MonthSteps) =>
              UNCHANGED <<year_tax, year_net_payout>>
        /\ pc' \in MonthSteps \cup {"year_end"} =>
              /\ year_net_payout' >= 0 /\ year_tax' >= 0
              /\ \E k \in 0..WithdrawalStepsDone' :
                    year_net_payout' + year_tax' = k * MonthlyWd'
        /\ pc = "year_end" =>
              LET net == payouts_paths'[sim + 1][year_idx + 1]
                  tax == taxes_paths'[sim + 1][year_idx + 1]
              IN /\ net >= 0 /\ tax >= 0
                 /\ \E k \in 0..MONTHS : net + tax = k * MonthlyWd ]_vars
\* a year is about to be recorded in which withdrawals were executed, some
\* of them taxed and some untaxed or taxed in part
C27_Witness ==
    /\ pc = "year_end"
    /\ year_tax > 0
    /\ year_net_payout > 0
    /\ year_tax < MulRate(year_net_payout + year_tax, TAX_RATE) - MONTHS

\* the tax charged so far on a path: the years recorded in its row of
\* taxes_paths plus, inside a year, the tax of the year so far
TaxSoFar(row, idx, step, tax) ==
    SumSeq(SubSeq(row, 1, idx))
        + (IF step \in MonthSteps \cup {"year_end"} THEN tax ELSE 0)
CumulativeTax == TaxSoFar(taxes_paths[sim + 1], year_idx, pc, year_tax)
\* 0.22 * max(0, total_withdrawn - total_invested)
ExcessTax(withdrawn, invested) == MulRate(Max(0, withdrawn - invested), TAX_RATE)
TaxOnExcess == ExcessTax(total_withdrawn, total_invested)
\* what the rounding of the monthly taxes can add up to along a path
TaxRounding == MONTHS * NYears
\* the year (index into years) of the first taxed withdrawal of a path, the
\* running year if no recorded year has a tax
FirstTaxedYear(row, idx) ==
    LET taxed == {y \in 1..idx : row[y] > 0}
    IN IF taxed = {} THEN idx + 1
       ELSE CHOOSE y \in taxed : \A z \in taxed : y <= z
\* no contribution can have followed a taxed withdrawal of the path
NoContributionSinceTax(row, idx, step, tax) ==
    \/ TaxSoFar(row, idx, step, tax) = 0
    \/ Cfg.monthly_allocations = <<>>
    \/ ~ IsContributing(call.years[FirstTaxedYear(row, idx)])

\* C28: at every point of a path the cumulative tax is at least 0.22 *
\* max(0, total_withdrawn - total_invested), up to the rounding of the
\* monthly taxes; the two are equal as long as no contribution follows a
\* taxed withdrawal: only a contribution made after tax was charged moves
\* the difference, it can only widen it, and no step lowers the cumulative
\* tax.
C28_CumulativeTax ==
    [][ (pc' \in MonthSteps \cup {"year_start", "year_end"} /\ sim' = sim) =>
            LET tax_after == TaxSoFar(taxes_paths'[sim + 1], year_idx', pc', year_tax')
                gap == CumulativeTax - TaxOnExcess
                gap_after == tax_after - ExcessTax(total_withdrawn', total_invested')
            IN /\ gap_after >= -TaxRounding
               /\ NoContributionSinceTax(taxes_paths'[sim + 1], year_idx', pc', year_tax') =>
                     Abs(gap_after) <= TaxRounding
               /\ InPath =>
                     /\ tax_after >= CumulativeTax
                     /\ pc = "contribution" =>
                           (tax_after = CumulativeTax /\ gap_after >= gap)
                     /\ Abs(gap_after - gap) > 1 =>
                           (pc = "contribution" /\ IsContributing(Year) /\ CumulativeTax > 0) ]_vars
\* tax has been charged, contributions have followed, and the cumulative
\* tax now exceeds 0.22 of the excess of the withdrawals over the basis,
\* which is still positive
C28_Witness ==
    /\ InPath
    /\ total_withdrawn > total_invested
    /\ CumulativeTax > TaxOnExcess + TaxRounding

\* every asset balance of the running path is 0
Depleted(bals) == \A i \in 1..Len(bals) : bals[i][2] = 0
\* no contribution is applied in the months of this year: there are no
\* allocations, or the year is the contribution end year or a later one
NoContributionIn(year) ==
    \/ Cfg.monthly_allocations = <<>>
    \/ Cfg.contribution_end_year # None /\ year >= Cfg.contribution_end_year[1]

\* C29: depletion is absorbing.  Once every balance of a path is 0 in a
\* month without contribution, every later step of the path leaves all
\* balances at 0 and total_withdrawn as it is, the steps of a month add no
\* cost, net payout or tax, and a year that starts depleted is recorded with
\* balance, cost, net payout and tax 0.
C29_DepletionAbsorbing ==
    [][ (InPath /\ InPath' /\ sim' = sim /\ Depleted(sim_balances)
            /\ NoContributionIn(Year)) =>
            /\ Depleted(sim_balances')
            /\ NoContributionIn(call.years[year_idx' + 1])
            /\ total_withdrawn' = total_withdrawn
            /\ pc \in MonthSteps => UNCHANGED <<year_costs, year_net_payout, year_tax>>
            /\ (pc = "year_end" /\ year_idx >= 1 /\ paths[sim + 1][year_idx] = 0) =>
                  /\ paths'[sim + 1][year_idx + 1] = 0
                  /\ costs_paths'[sim + 1][year_idx + 1] = 0
                  /\ payouts_paths'[sim + 1][year_idx + 1] = 0
                  /\ taxes_paths'[sim + 1][year_idx + 1] = 0 ]_vars
\* a path that paid costs and withdrawals was depleted and has gone through
\* a whole further year at 0
C29_Witness ==
    /\ pc = "year_end" /\ year_idx >= 1
    /\ Depleted(sim_balances) /\ sim_balances # <<>>
    /\ NoContributionIn(Year)
    /\ paths[sim + 1][year_idx] = 0
    /\ Cfg.annual_costs > 0
    /\ total_withdrawn > 0
    /\ withdrawal_budget = 0 /\ Cfg.withdrawal_rate > 0

\* C30: while a simulate call runs, the mappings it was called with and the
\* simulators (their asset_params included) stay as they were, and every
\* path starts from the same state: the balances are current_assets
\* extended with 0 for the assets that only monthly_allocations names,
\* total_invested is the sum of current_assets and total_withdrawn is 0.
C30_CallerStateUntouched ==
    [][ /\ (pc # "idle" /\ pc' # "idle") =>
              /\ call'.cfg = call.cfg
              /\ simulators' = simulators
        /\ pc = "aggregate" =>
              /\ history'[Len(history')].cfg = call.cfg
              /\ simulators' = simulators
        /\ pc = "path_start" =>
              LET assets == call.cfg.current_assets
                  allocs == call.cfg.monthly_allocations
              IN /\ Keys(sim_balances') = Keys(assets) \cup Keys(allocs)
                 /\ \A isin \in Keys(sim_balances') :
                       Get(sim_balances', isin) =
                           IF Has(assets, isin) THEN Get(assets, isin) ELSE 0
                 /\ total_invested' = SumValues(assets)
                 /\ total_withdrawn' = 0 ]_vars
\* the second path of a call is starting after a first path that changed
\* its balances, its basis and its withdrawals, with an asset that only the
\* allocations name
C30_Witness ==
    /\ pc = "year_start" /\ year_idx = 0 /\ sim = 1
    /\ paths[1][1] # SumValues(call.cfg.current_assets)
    /\ deposit_pot_paths[1][1] > call.starting_capital
    /\ NYears = 2 /\ payouts_paths[1][2] > 0
    /\ Keys(call.cfg.monthly_allocations) \ Keys(call.cfg.current_assets) # {}
    /\ total_withdrawn = 0

====
